---- MODULE Spec2Model ----
(***************************************************************************)
(* Model of mmdet/ops/nms/nms_wrapper.py: the four suppression entry       *)
(* points nms, soft_nms, oks_nms and oks_nms_vis; and of RandomFlip in     *)
(* mmdet/datasets/pipelines/transforms.py.                                 *)
(*                                                                         *)
(* One call is one action: the action draws the arguments, runs the whole  *)
(* body of the entry point and leaves the outcome in `ret` and the ordered *)
(* log of what the body did in `events`.  The compiled backends            *)
(* (nms_cpu, nms_cuda, soft_nms_cpu, the oks_nms ones) are not among the   *)
(* Python sources; they are modelled from the written specification        *)
(* (sections 4.1 to 4.4) and are marked as such in the model map.          *)
(*                                                                         *)
(* Numbers.  Coordinates are integers.  Scores are integers in thousandths *)
(* (900 is 0.9, min_score 1e-3 is 1).  An overlap is the exact fraction    *)
(* <<inter, union>>, a threshold the exact fraction <<num, den>>; they are *)
(* compared by cross multiplication.                                       *)
(***************************************************************************)
EXTENDS Integers, Sequences, FiniteSets, TLC

VARIABLES pc, fn, args, ret, events, remaining, finalized, frames, globals,
          self, results

vars == <<pc, fn, args, ret, events, remaining, finalized, frames, globals,
          self, results>>

\* The working state of the soft-NMS loop when it is followed step by step:
\* the candidates still remaining and the candidates finalized so far.
loopvars == <<remaining, finalized>>

\* The state of concurrent calls when they are followed statement by
\* statement: the frame of each thread's call, and the names bound at module
\* level, which every call can read.
threadvars == <<frames, globals>>

\* The RandomFlip transform of the data pipeline: the instance and the
\* results dict it is called on, which it changes in place.
flipvars == <<self, results>>

\* ----------------------------------------------------------------- bounds

\* Largest number of candidates in one call.
MaxN == 3

\* ------------------------------------------------------------ input space

\* Boxes <<x1, y1, x2, y2>>.  The first overlaps the second by 1/2 and the
\* third by 1/3; the second and the third only touch (overlap 0).
Boxes == { <<0, 0, 2, 2>>, <<0, 0, 2, 1>>, <<0, 1, 2, 3>> }

Scores == {900, 500}

Dets == [box : Boxes, score : Scores]

\* iou_thr in [0, 1] as <<num, den>>, for the box entry points and for the
\* keypoint entry points.
Thresholds == { <<0, 1>>, <<1, 3>>, <<1, 1>> }
OksThresholds == { <<0, 1>>, <<7, 10>> }

\* device_id: None or a device number (written as it is formatted into
\* 'cuda:{}').
None == "None"
DeviceIds == {None, "0"}

DTypes == {"float32", "float64"}

\* soft_nms: the method names tried, sigma as <<num, den>>, min_score in
\* thousandths.
Methods == {"linear", "gaussian", "cosine"}
DefaultSigma == <<1, 2>>
DefaultMinScore == 1

\* Keypoint candidates: K keypoints <<x, y, visibility>> (visibility in
\* hundredths: 100 is fully visible, 5 is visible but weak, 0 is invisible),
\* a score and the reference area.
Poses == { << <<0, 0, 100>>, <<2, 0, 100>> >>,
           << <<0, 1, 100>>, <<2, 0, 5>> >>,
           << <<4, 4, 100>>, <<2, 0, 0>> >> }

Kpts == [kps : Poses, score : Scores, area : {4}]

\* The per-keypoint sigmas as passed by the caller (the wrapper divides them
\* by 10), and vis_thr in hundredths (the default 0.1 is 10).
SigmaLists == { <<5, 5>>, <<5, 5, 5>> }
DefaultVisThr == 10

SeqsUpTo(S, n) == UNION { [1..k -> S] : k \in 0..n }

\* A numpy array, a CPU tensor, a GPU tensor.
Containers(Rows) ==
    [kind : {"ndarray"}, device : {"cpu"}, dtype : DTypes, rows : Rows]
      \cup [kind : {"tensor"}, device : {"cpu", "cuda"}, dtype : DTypes, rows : Rows]

\* What is neither: a Python list of rows.
Others(Rows) ==
    [kind : {"list"}, device : {"cpu"}, dtype : {"object"}, rows : Rows]

\* ------------------------------------------------------- overlap (spec 4.1)

Max(a, b) == IF a >= b THEN a ELSE b
Min(a, b) == IF a <= b THEN a ELSE b

Area(b) == (b[3] - b[1]) * (b[4] - b[2])

InterArea(a, b) ==
    LET w == Min(a[3], b[3]) - Max(a[1], b[1])
        h == Min(a[4], b[4]) - Max(a[2], b[2])
    IN  IF w > 0 /\ h > 0 THEN w * h ELSE 0

\* iou(a, b) as the fraction <<inter, union>>; <<0, 1>> when the boxes do not
\* overlap or either has non-positive area.
IoU(a, b) ==
    IF Area(a) <= 0 \/ Area(b) <= 0 \/ InterArea(a, b) = 0
    THEN <<0, 1>>
    ELSE <<InterArea(a, b), Area(a) + Area(b) - InterArea(a, b)>>

\* f > t for fractions with positive denominators.
Exceeds(f, t) == f[1] * t[2] > t[1] * f[2]

\* -------------------------------------------- hard NMS backend (spec 4.2)

\* The 0-based index of the candidate to take next among `left` (a set of
\* 0-based indices): highest score, ties by lowest index.
TopIndex(rows, left) ==
    CHOOSE i \in left :
        \A j \in left :
            \/ rows[i + 1].score > rows[j + 1].score
            \/ rows[i + 1].score = rows[j + 1].score /\ i <= j

RECURSIVE SortFrom(_, _)
SortFrom(rows, left) ==
    IF left = {} THEN <<>>
    ELSE LET i == TopIndex(rows, left)
         IN  <<i>> \o SortFrom(rows, left \ {i})

\* All indices by descending score, stable.
StableDescOrder(rows) == SortFrom(rows, 0..(Len(rows) - 1))

\* A slip in GreedyKeep: >= for >, a candidate is dropped already when its
\* overlap with the kept one reaches thr.
RECURSIVE GreedyKeepAtThreshold(_, _, _)
GreedyKeepAtThreshold(rows, order, thr) ==
    IF order = <<>> THEN <<>>
    ELSE LET h == Head(order)
             rest == SelectSeq(Tail(order),
                        LAMBDA j : Exceeds(thr, IoU(rows[h + 1].box, rows[j + 1].box)))
         IN  <<h>> \o GreedyKeepAtThreshold(rows, rest, thr)

\* Keep the head of `order`, drop every later index that overlaps it by more
\* than thr, go on with the rest.
RECURSIVE GreedyKeep(_, _, _)
GreedyKeep(rows, order, thr) ==
    IF order = <<>> THEN <<>>
    ELSE LET h == Head(order)
             rest == SelectSeq(Tail(order),
                        LAMBDA j : ~Exceeds(IoU(rows[h + 1].box, rows[j + 1].box), thr))
         IN  <<h>> \o GreedyKeep(rows, rest, thr)

\* nms_cpu.nms(dets_th, iou_thr) and nms_cuda.nms(dets_th, iou_thr): the kept
\* 0-based indices.
NmsBackend(rows, thr) == GreedyKeep(rows, StableDescOrder(rows), thr)

\* --------------------------------------------- score decay (spec 4.3)

\* floor(1000 * exp(-t / 10)) for t = 0, 1, 2, ...: exp in thousandths at a
\* resolution of one tenth; 0 from t = 70 on.
ExpTable ==
    << 1000, 904, 818, 740, 670, 606, 548, 496, 449, 406,
       367, 332, 301, 272, 246, 223, 201, 182, 165, 149,
       135, 122, 110, 100, 90, 82, 74, 67, 60, 55,
       49, 45, 40, 36, 33, 30, 27, 24, 22, 20,
       18, 16, 14, 13, 12, 11, 10, 9, 8, 7,
       6, 6, 5, 4, 4, 4, 3, 3, 3, 2,
       2, 2, 2, 1, 1, 1, 1, 1, 1, 1 >>

\* exp(-p/q) in thousandths, p >= 0, q > 0.
ExpNeg(p, q) ==
    LET t == (10 * p) \div q
    IN  IF t < Len(ExpTable) THEN ExpTable[t + 1] ELSE 0

\* The method codes soft_nms hands to soft_nms_cpu.
Linear == "linear"
Gaussian == "gaussian"
MethodCodeSwapped(method) == IF method = Linear THEN 2 ELSE 1
MethodCode(method) == IF method = Linear THEN 1 ELSE 2

\* The score of a remaining candidate after one step, given its overlap
\* iou = <<i, u>> with the candidate just selected.
\*   linear (1):   score * (1 - iou) if iou > iou_thr, else unchanged
\*   gaussian (2): score * exp(-iou^2 / sigma)
Decay(score, iou, thr, code, sigma) ==
    IF code = 1
    THEN IF Exceeds(iou, thr)
         THEN (score * (iou[2] - iou[1])) \div iou[2]
         ELSE score
    ELSE (score * ExpNeg(iou[1] * iou[1] * sigma[2], iou[2] * iou[2] * sigma[1]))
            \div 1000

\* ------------------------------------------------ soft-NMS backend (4.3)

\* The position in `left` (a sequence of [idx, box, score]) of the candidate
\* to select: highest current score, ties by position.
TopPos(left) ==
    CHOOSE p \in 1..Len(left) :
        \A q \in 1..Len(left) :
            \/ left[p].score > left[q].score
            \/ left[p].score = left[q].score /\ p <= q

RemoveAt(s, p) == SubSeq(s, 1, p - 1) \o SubSeq(s, p + 1, Len(s))

\* One step of the loop: the selected candidate and what remains after the
\* decay and the discard of every score below min_score.
SoftStep(left, thr, code, sigma, min_score) ==
    LET p == TopPos(left)
        top == left[p]
        others == RemoveAt(left, p)
        decayed == [k \in 1..Len(others) |->
                      [others[k] EXCEPT !.score =
                          Decay(others[k].score, IoU(top.box, others[k].box),
                                thr, code, sigma)]]
    IN  [selected |-> top,
         left |-> SelectSeq(decayed, LAMBDA c : c.score >= min_score)]

RECURSIVE SoftLoop(_, _, _, _, _)
SoftLoop(left, thr, code, sigma, min_score) ==
    IF left = <<>> THEN <<>>
    ELSE LET st == SoftStep(left, thr, code, sigma, min_score)
         IN  <<st.selected>> \o SoftLoop(st.left, thr, code, sigma, min_score)

\* soft_nms_cpu(dets_np, iou_thr, method, sigma, min_score): the finalized
\* candidates [idx, box, score] in the order they were selected.
SoftNmsBackend(rows, thr, code, sigma, min_score) ==
    SoftLoop([k \in 1..Len(rows) |->
                 [idx |-> k - 1, box |-> rows[k].box, score |-> rows[k].score]],
             thr, code, sigma, min_score)

\* ------------------------------------------------------- OKS (spec 4.1, 4.4)

Dist2(a, b) == (a[1] - b[1]) * (a[1] - b[1]) + (a[2] - b[2]) * (a[2] - b[2])

\* The keypoints that enter the similarity of the kept candidate a and the
\* candidate b: visible (> 0) in both, and at least `gate` on the kept one
\* (the gated variant's vis_thr; 0 for the plain variant, which gates nothing).
Counted(a, b, gate) ==
    { k \in 1..Min(Len(a.kps), Len(b.kps)) :
        /\ a.kps[k][3] > 0
        /\ b.kps[k][3] > 0
        /\ a.kps[k][3] >= gate }

\* exp(-d_k) in thousandths, d_k = dist^2 / (2 * area * sigma_k^2), with the
\* wrapper's sigma_k = <<s_k, 10>>.
KptTerm(a, b, sigmas, k) ==
    ExpNeg(Dist2(a.kps[k], b.kps[k]) * sigmas[k][2] * sigmas[k][2],
           2 * a.area * sigmas[k][1] * sigmas[k][1])

RECURSIVE KptSum(_, _, _, _)
KptSum(S, a, b, sigmas) ==
    IF S = {} THEN 0
    ELSE LET k == CHOOSE x \in S : TRUE
         IN  KptTerm(a, b, sigmas, k) + KptSum(S \ {k}, a, b, sigmas)

\* oks(a, b, sigmas, area) as the fraction <<sum of the terms, 1000 * count>>;
\* <<0, 1>> when no keypoint is counted.
Oks(a, b, sigmas, gate) ==
    LET S == Counted(a, b, gate)
    IN  IF S = {} THEN <<0, 1>>
        ELSE <<KptSum(S, a, b, sigmas), 1000 * Cardinality(S)>>

RECURSIVE OksGreedy(_, _, _, _, _)
OksGreedy(rows, order, thr, sigmas, gate) ==
    IF order = <<>> THEN <<>>
    ELSE LET h == Head(order)
             rest == SelectSeq(Tail(order),
                        LAMBDA j : ~Exceeds(Oks(rows[h + 1], rows[j + 1], sigmas, gate),
                                            thr))
         IN  <<h>> \o OksGreedy(rows, rest, thr, sigmas, gate)

\* oks_nms_cuda.oks_nms, oks_nms_cpu.oks_nms, oks_nms_py.oks_nms
\* (kpts, iou_thr, sigmas): the kept 0-based indices.
OksBackend(rows, thr, sigmas) ==
    OksGreedy(rows, StableDescOrder(rows), thr, sigmas, 0)

\* oks_nms_vis_cuda.oks_nms(kpts, iou_thr, vis_thr, sigmas).
OksVisBackend(rows, thr, vis_thr, sigmas) ==
    OksGreedy(rows, StableDescOrder(rows), thr, sigmas, vis_thr)

\* ----------------------------------------------------- the wrapper's steps

\* isinstance(dets, torch.Tensor) / isinstance(dets, np.ndarray)
IsTensor(c) == c.kind = "tensor"
IsNdarray(c) == c.kind = "ndarray"

\* The tensor the backend is called on: the tensor itself, or
\* torch.from_numpy(dets).to(device) with device 'cpu' when device_id is None
\* and 'cuda:<device_id>' otherwise.
ToTensor(c, device_id) ==
    IF IsTensor(c) THEN c
    ELSE [kind |-> "tensor",
          device |-> IF device_id = None THEN "cpu" ELSE "cuda",
          dtype |-> c.dtype,
          rows |-> c.rows]

IsCuda(t) == t.device = "cuda"

\* A slip in IndexRows: dets[:len(inds)], the first rows instead of the rows
\* at the indices.
IndexRowsHead(c, inds) ==
    [kind |-> c.kind, device |-> c.device, dtype |-> c.dtype,
     rows |-> SubSeq(c.rows, 1, Len(inds))]

\* dets[inds, :] : the rows at the 0-based indices, in the container of dets.
IndexRows(c, inds) ==
    [kind |-> c.kind, device |-> c.device, dtype |-> c.dtype,
     rows |-> [k \in 1..Len(inds) |-> c.rows[inds[k] + 1]]]

\* A slip in IndexContainer: the indices handed back in ascending order
\* (np.sort(inds)) instead of in the backend's order.
RECURSIVE Ascending(_)
Ascending(S) ==
    IF S = {} THEN <<>>
    ELSE LET m == CHOOSE x \in S : \A y \in S : x <= y
         IN  <<m>> \o Ascending(S \ {m})

IndexContainerSorted(is_numpy, dets_th, inds) ==
    [kind |-> IF is_numpy THEN "ndarray" ELSE "tensor",
     device |-> IF is_numpy THEN "cpu" ELSE dets_th.device,
     dtype |-> "int64",
     rows |-> Ascending({inds[k] : k \in 1..Len(inds)})]

\* A slip in IndexContainer: 1-based indices.
IndexContainerOneBased(is_numpy, dets_th, inds) ==
    [kind |-> IF is_numpy THEN "ndarray" ELSE "tensor",
     device |-> IF is_numpy THEN "cpu" ELSE dets_th.device,
     dtype |-> "int64",
     rows |-> [k \in 1..Len(inds) |-> inds[k] + 1]]

\* The index result: new_zeros(0, dtype=torch.long) or the backend's tensor,
\* which lives where dets_th lives; inds.cpu().numpy() for a numpy input.
IndexContainer(is_numpy, dets_th, inds) ==
    IF is_numpy
    THEN [kind |-> "ndarray", device |-> "cpu", dtype |-> "int64", rows |-> inds]
    ELSE [kind |-> "tensor", device |-> dets_th.device, dtype |-> "int64", rows |-> inds]

Raised(err) == [status |-> err]
Returned(kept, inds) == [status |-> "ok", kept |-> kept, inds |-> inds]

NoArgs == [dets |-> <<>>]
NoRet == [status |-> "none"]

\* flip_ratio = None, written as a number that is no ratio (ratios are in
\* hundredths, 0 to 100).
NoRatio == -1

\* A dict with no key.
EmptyDict == [k \in {} |-> k]

\* No RandomFlip instance, no results dict.
NoSelf == [flip_ratio |-> NoRatio, direction |-> None]
NoResults == EmptyDict

\* The names nms reads at module level: the imported backends.
ModuleGlobals == ("nms_cpu" :> "nms_cpu.nms") @@ ("nms_cuda" :> "nms_cuda.nms")

\* The backend nms picks for the tensor it runs on.
NmsBackendName(dets_th) == IF IsCuda(dets_th) THEN "nms_cuda.nms" ELSE "nms_cpu.nms"

\* nms(dets, iou_thr, device_id): <<outcome, log>>.
NmsCall(dets, iou_thr, device_id) ==
    IF ~IsTensor(dets) /\ ~IsNdarray(dets)
    THEN <<Raised("TypeError"), <<"isinstance">>>>
    ELSE LET is_numpy == ~IsTensor(dets)
             dets_th == ToTensor(dets, device_id)
             empty == Len(dets_th.rows) = 0
             inds == IF empty THEN <<>> ELSE NmsBackend(dets_th.rows, iou_thr)
             log == IF empty THEN <<"isinstance">>
                    ELSE <<"isinstance", NmsBackendName(dets_th)>>
         IN  <<Returned(IndexRows(dets, inds), IndexContainer(is_numpy, dets_th, inds)),
               log>>

\* A slip in soft_nms: dets[inds, :] handed back as nms does, the input rows
\* with their input scores instead of the backend's new_dets.
SoftNmsReturnIndexed(dets, iou_thr, code, sigma, min_score) ==
    LET out == SoftNmsBackend(dets.rows, iou_thr, code, sigma, min_score)
        inds == [k \in 1..Len(out) |-> out[k].idx]
    IN  Returned(IndexRows(dets, inds),
                 [kind |-> dets.kind, device |-> dets.device,
                  dtype |-> "int64", rows |-> inds])

\* The outcome of soft_nms once the backend has run on dets with method code
\* `code`: dets.new_tensor(new_dets), dets.new_tensor(inds, dtype=torch.long)
\* for a tensor, new_dets.astype(np.float32), inds.astype(np.int64) otherwise.
SoftNmsReturn(dets, iou_thr, code, sigma, min_score) ==
    LET is_tensor == IsTensor(dets)
        out == SoftNmsBackend(dets.rows, iou_thr, code, sigma, min_score)
        new_dets == [k \in 1..Len(out) |->
                        [box |-> out[k].box, score |-> out[k].score]]
        inds == [k \in 1..Len(out) |-> out[k].idx]
    IN  IF is_tensor
        THEN Returned([kind |-> "tensor", device |-> dets.device,
                       dtype |-> dets.dtype, rows |-> new_dets],
                      [kind |-> "tensor", device |-> dets.device,
                       dtype |-> "int64", rows |-> inds])
        ELSE Returned([kind |-> "ndarray", device |-> "cpu",
                       dtype |-> "float32", rows |-> new_dets],
                      [kind |-> "ndarray", device |-> "cpu",
                       dtype |-> "int64", rows |-> inds])

\* A slip in soft_nms: method_codes.get(method, 1), an unknown method name
\* falls back to the linear decay.
SoftNmsCallDefaulting(dets, iou_thr, method, sigma, min_score) ==
    IF ~IsTensor(dets) /\ ~IsNdarray(dets)
    THEN <<Raised("TypeError"), <<"isinstance">>>>
    ELSE <<SoftNmsReturn(dets, iou_thr,
                         IF method = Gaussian THEN 2 ELSE 1, sigma, min_score),
           <<"isinstance", "method_codes", "soft_nms_cpu">>>>

\* soft_nms(dets, iou_thr, method, sigma, min_score): <<outcome, log>>.
SoftNmsCall(dets, iou_thr, method, sigma, min_score) ==
    IF ~IsTensor(dets) /\ ~IsNdarray(dets)
    THEN <<Raised("TypeError"), <<"isinstance">>>>
    ELSE IF method \notin {Linear, Gaussian}
    THEN <<Raised("ValueError"), <<"isinstance", "method_codes">>>>
    ELSE <<SoftNmsReturn(dets, iou_thr, MethodCode(method), sigma, min_score),
           <<"isinstance", "method_codes", "soft_nms_cpu">>>>

\* sigmas = [s/10 for s in sigmas]; sigmas = torch.FloatTensor(sigmas)
ScaleSigmas(sigmas) == [k \in 1..Len(sigmas) |-> <<sigmas[k], 10>>]

\* The keypoints per candidate of a keypoint array, kpts.shape[1]: every
\* array of the inputs, the one of zero candidates included, has the columns
\* of a pose of Poses.
PoseLen == Len(CHOOSE p \in Poses : TRUE)
KeypointCount(kpts) ==
    IF Len(kpts.rows) > 0 THEN Len(kpts.rows[1].kps) ELSE PoseLen

\* The shape rule of section 7 in the OKS backends: as many keypoints per candidate as
\* there are sigmas, or the call is rejected with a shape-mismatch error.
ShapeMatches(kpts_th, sigmas) == KeypointCount(kpts_th) = Len(sigmas)

\* The backends oks_nms runs for the tensor it works on, in call order.
OksBackendNames(kpts_th) ==
    IF IsCuda(kpts_th) THEN <<"oks_nms_cuda.oks_nms">>
    ELSE <<"oks_nms_cpu.oks_nms", "oks_nms_py.oks_nms">>

\* oks_nms(kpts, iou_thr, sigmas, device_id): <<outcome, log>>.
OksNmsCall(kpts, iou_thr, sigmas, device_id) ==
    LET sig == ScaleSigmas(sigmas)
    IN  IF ~IsTensor(kpts) /\ ~IsNdarray(kpts)
        THEN <<Raised("TypeError"), <<"sigmas", "isinstance">>>>
        ELSE LET is_numpy == ~IsTensor(kpts)
                 kpts_th == ToTensor(kpts, device_id)
                 empty == Len(kpts_th.rows) = 0
                 inds == IF empty THEN <<>> ELSE OksBackend(kpts_th.rows, iou_thr, sig)
                 log == IF empty THEN <<"sigmas", "isinstance">>
                        ELSE <<"sigmas", "isinstance">> \o OksBackendNames(kpts_th)
             IN  IF ~empty /\ ~ShapeMatches(kpts_th, sig)
                 THEN <<Raised("ShapeMismatch"),
                        <<"sigmas", "isinstance", Head(OksBackendNames(kpts_th))>>>>
                 ELSE <<Returned(IndexRows(kpts, inds),
                                 IndexContainer(is_numpy, kpts_th, inds)),
                        log>>

\* The backends oks_nms_vis runs for the tensor it works on, in call order.
OksVisBackendNames(kpts_th) ==
    IF IsCuda(kpts_th) THEN <<"oks_nms_vis_cuda.oks_nms">>
    ELSE <<"oks_nms_cpu.oks_nms", "oks_nms_py.oks_nms">>

\* oks_nms_vis(kpts, iou_thr, sigmas, vis_thr, device_id): <<outcome, log>>.
\* Only the GPU backend is handed vis_thr.
OksNmsVisCall(kpts, iou_thr, sigmas, vis_thr, device_id) ==
    LET sig == ScaleSigmas(sigmas)
    IN  IF ~IsTensor(kpts) /\ ~IsNdarray(kpts)
        THEN <<Raised("TypeError"), <<"sigmas", "isinstance">>>>
        ELSE LET is_numpy == ~IsTensor(kpts)
                 kpts_th == ToTensor(kpts, device_id)
                 empty == Len(kpts_th.rows) = 0
                 inds == IF empty THEN <<>>
                         ELSE IF IsCuda(kpts_th)
                         THEN OksVisBackend(kpts_th.rows, iou_thr, vis_thr, sig)
                         ELSE OksBackend(kpts_th.rows, iou_thr, sig)
                 log == IF empty THEN <<"sigmas", "isinstance">>
                        ELSE <<"sigmas", "isinstance">> \o OksVisBackendNames(kpts_th)
             IN  IF ~empty /\ ~ShapeMatches(kpts_th, sig)
                 THEN <<Raised("ShapeMismatch"),
                        <<"sigmas", "isinstance", Head(OksVisBackendNames(kpts_th))>>>>
                 ELSE <<Returned(IndexRows(kpts, inds),
                                 IndexContainer(is_numpy, kpts_th, inds)),
                        log>>

\* ---------------------------------------------------------------- actions

Init ==
    /\ pc = "idle"
    /\ fn = "none"
    /\ args = NoArgs
    /\ ret = NoRet
    /\ events = <<>>
    /\ remaining = <<>>
    /\ finalized = <<>>
    /\ frames = <<>>
    /\ globals = ModuleGlobals
    /\ self = NoSelf
    /\ results = NoResults

DetInputs == Containers(SeqsUpTo(Dets, MaxN)) \cup Others(SeqsUpTo(Dets, 1))
KptInputs == Containers(SeqsUpTo(Kpts, MaxN)) \cup Others(SeqsUpTo(Kpts, 1))

\* The seven candidates of the example in the docstring of nms, coordinates
\* in tenths of a pixel and scores in thousandths, and its iou_thr = 0.7.
ExampleRows ==
    << [box |-> <<491, 324, 510, 359>>, score |-> 900],
       [box |-> <<493, 329, 510, 353>>, score |-> 900],
       [box |-> <<492, 318, 510, 354>>, score |-> 500],
       [box |-> <<351, 115, 391, 157>>, score |-> 500],
       [box |-> <<356, 118, 393, 142>>, score |-> 500],
       [box |-> <<353, 115, 399, 145>>, score |-> 400],
       [box |-> <<352, 117, 397, 157>>, score |-> 300] >>
ExampleDets ==
    [kind |-> "ndarray", device |-> "cpu", dtype |-> "float32",
     rows |-> ExampleRows]
ExampleThr == <<7, 10>>

\* The (dets, iou_thr) pairs nms and soft_nms are called with.
DetCalls == (DetInputs \X Thresholds) \cup {<<ExampleDets, ExampleThr>>}

Nms ==
    /\ pc = "idle"
    /\ \E call \in DetCalls, device_id \in DeviceIds :
        \E r \in {NmsCall(call[1], call[2], device_id)} :
          /\ fn' = "nms"
          /\ args' = [dets |-> call[1], iou_thr |-> call[2],
                      device_id |-> device_id]
          /\ ret' = r[1]
          /\ events' = r[2]
    /\ pc' = "done"
    /\ UNCHANGED <<loopvars, threadvars, flipvars>>

SoftNms ==
    /\ pc = "idle"
    /\ \E call \in DetCalls, method \in Methods :
        \E r \in {SoftNmsCall(call[1], call[2], method, DefaultSigma,
                               DefaultMinScore)} :
          /\ fn' = "soft_nms"
          /\ args' = [dets |-> call[1], iou_thr |-> call[2], method |-> method,
                      sigma |-> DefaultSigma, min_score |-> DefaultMinScore]
          /\ ret' = r[1]
          /\ events' = r[2]
    /\ pc' = "done"
    /\ UNCHANGED <<loopvars, threadvars, flipvars>>

OksNms ==
    /\ pc = "idle"
    /\ \E kpts \in KptInputs, iou_thr \in OksThresholds, sigmas \in SigmaLists,
          device_id \in DeviceIds :
        \E r \in {OksNmsCall(kpts, iou_thr, sigmas, device_id)} :
          /\ fn' = "oks_nms"
          /\ args' = [dets |-> kpts, iou_thr |-> iou_thr, sigmas |-> sigmas,
                      device_id |-> device_id]
          /\ ret' = r[1]
          /\ events' = r[2]
    /\ pc' = "done"
    /\ UNCHANGED <<loopvars, threadvars, flipvars>>

OksNmsVis ==
    /\ pc = "idle"
    /\ \E kpts \in KptInputs, iou_thr \in OksThresholds, sigmas \in SigmaLists,
          device_id \in DeviceIds :
        \E r \in {OksNmsVisCall(kpts, iou_thr, sigmas, DefaultVisThr, device_id)} :
          /\ fn' = "oks_nms_vis"
          /\ args' = [dets |-> kpts, iou_thr |-> iou_thr, sigmas |-> sigmas,
                      vis_thr |-> DefaultVisThr, device_id |-> device_id]
          /\ ret' = r[1]
          /\ events' = r[2]
    /\ pc' = "done"
    /\ UNCHANGED <<loopvars, threadvars, flipvars>>

\* The call is over; nothing of it is kept.
Forget ==
    /\ pc = "done"
    /\ pc' = "idle"
    /\ fn' = "none"
    /\ args' = NoArgs
    /\ ret' = NoRet
    /\ events' = <<>>
    /\ UNCHANGED <<loopvars, threadvars, flipvars>>

Next == Nms \/ SoftNms \/ OksNms \/ OksNmsVis \/ Forget

Spec == Init /\ [][Next]_vars

\* ------------------------------------- soft_nms followed step by step

\* The scores tried in the loop: those above, and 0 (below min_score).
LoopScores == Scores \cup {0}
LoopDets == [box : Boxes, score : LoopScores]

\* The candidates as the loop starts on them: each with its position in the
\* input.
Enter(rows) ==
    [k \in 1..Len(rows) |->
        [idx |-> k - 1, box |-> rows[k].box, score |-> rows[k].score]]

\* soft_nms is called on a numpy array with a known method and is about to run
\* the loop of soft_nms_cpu.
SoftInit ==
    /\ pc = "loop"
    /\ fn = "soft_nms"
    /\ \E rows \in SeqsUpTo(LoopDets, MaxN), iou_thr \in Thresholds,
          method \in {Linear, Gaussian} :
          /\ args = [dets |-> [kind |-> "ndarray", device |-> "cpu",
                               dtype |-> "float32", rows |-> rows],
                     iou_thr |-> iou_thr, method |-> method,
                     sigma |-> DefaultSigma, min_score |-> DefaultMinScore]
          /\ remaining = Enter(rows)
    /\ finalized = <<>>
    /\ ret = NoRet
    /\ events = <<"isinstance", "method_codes", "soft_nms_cpu">>
    /\ frames = <<>>
    /\ globals = ModuleGlobals
    /\ self = NoSelf
    /\ results = NoResults

\* One pass of the loop: the top candidate is finalized, the others decay and
\* those below min_score are dropped.
SoftIterate ==
    /\ pc = "loop"
    /\ remaining # <<>>
    /\ \E st \in {SoftStep(remaining, args.iou_thr, MethodCode(args.method),
                            args.sigma, args.min_score)} :
          /\ finalized' = Append(finalized, st.selected)
          /\ remaining' = st.left
    /\ UNCHANGED <<pc, fn, args, ret, events, threadvars, flipvars>>

\* No candidate remains: soft_nms converts and returns what the backend built.
SoftReturn ==
    /\ pc = "loop"
    /\ remaining = <<>>
    /\ pc' = "done"
    /\ ret' = SoftNmsCall(args.dets, args.iou_thr, args.method, args.sigma,
                          args.min_score)[1]
    /\ UNCHANGED <<fn, args, events, remaining, finalized, threadvars,
                 flipvars>>

SoftNext == SoftIterate \/ SoftReturn

SoftSpec == SoftInit /\ [][SoftNext]_vars

\* ------------------------------------------ nms followed step by step

\* A slip in HardStep: the kept candidate is not taken out of the order.
HardStepKeepingHead(rows, order, thr) ==
    [selected |-> Head(order),
     left |-> SelectSeq(order,
                 LAMBDA j : ~Exceeds(IoU(rows[Head(order) + 1].box, rows[j + 1].box),
                                     thr) \/ j = Head(order))]

\* One step of the loop of 4.2 on the indices still in the order: the head is
\* kept, and what remains is every later index that does not overlap it by
\* more than thr.
HardStep(rows, order, thr) ==
    [selected |-> Head(order),
     left |-> SelectSeq(Tail(order),
                 LAMBDA j : ~Exceeds(IoU(rows[Head(order) + 1].box, rows[j + 1].box),
                                     thr))]

\* nms is called on a numpy array and its backend has sorted the candidates:
\* the loop is about to run on the indices in stable descending-score order.
HardInit ==
    /\ pc = "hard"
    /\ fn = "nms"
    /\ \E rows \in SeqsUpTo(Dets, MaxN), iou_thr \in Thresholds :
          /\ args = [dets |-> [kind |-> "ndarray", device |-> "cpu",
                               dtype |-> "float32", rows |-> rows],
                     iou_thr |-> iou_thr, device_id |-> None]
          /\ remaining = StableDescOrder(rows)
    /\ finalized = <<>>
    /\ ret = NoRet
    /\ events = <<"isinstance", "nms_cpu.nms">>
    /\ frames = <<>>
    /\ globals = ModuleGlobals
    /\ self = NoSelf
    /\ results = NoResults

\* One pass of the hard loop.
HardIterate ==
    /\ pc = "hard"
    /\ remaining # <<>>
    /\ \E st \in {HardStep(args.dets.rows, remaining, args.iou_thr)} :
          /\ finalized' = Append(finalized, st.selected)
          /\ remaining' = st.left
    /\ UNCHANGED <<pc, fn, args, ret, events, threadvars, flipvars>>

\* No index remains: nms returns.
HardReturn ==
    /\ pc = "hard"
    /\ remaining = <<>>
    /\ pc' = "done"
    /\ ret' = NmsCall(args.dets, args.iou_thr, args.device_id)[1]
    /\ UNCHANGED <<fn, args, events, remaining, finalized, threadvars,
                   flipvars>>

\* Both greedy loops, followed step by step.
GreedyInit == HardInit \/ SoftInit

GreedyNext == HardIterate \/ HardReturn \/ SoftIterate \/ SoftReturn

GreedySpec == GreedyInit /\ [][GreedyNext]_vars

\* ------------------------------------- concurrent calls of nms, by statement

MaxThreadN == 2
Threads == {1, 2}

\* The candidates of the concurrent calls: two overlapping boxes.
ThreadDets == [box : {<<0, 0, 2, 2>>, <<0, 0, 2, 1>>}, score : {900}]
ThreadInputs ==
    [kind : {"ndarray"}, device : {"cpu"}, dtype : {"float32"},
     rows : SeqsUpTo(ThreadDets, MaxThreadN)]
      \cup [kind : {"tensor"}, device : {"cpu", "cuda"}, dtype : {"float32"},
            rows : SeqsUpTo(ThreadDets, MaxThreadN)]
      \cup Others({<<>>})
ThreadThr == <<1, 3>>

\* A frame with no local name bound.
NoLocals == <<>>

\* A name as Python resolves it in a function body: local, else module level.
Lookup(locals, globs, name) ==
    IF name \in DOMAIN locals THEN locals[name] ELSE globs[name]

\* The frame of a call of nms that has not run a statement yet.
Called(dets, iou_thr, device_id) ==
    [at |-> "called", dets |-> dets, iou_thr |-> iou_thr,
     device_id |-> device_id, locals |-> NoLocals, ret |-> NoRet]

\* A slip in the conversion: is_numpy declared global, so that it is bound at
\* module level instead of in the frame.
NmsConvertGlobal(f, globs) ==
    IF ~IsTensor(f.dets) /\ ~IsNdarray(f.dets)
    THEN [frame |-> [f EXCEPT !.at = "raised", !.ret = Raised("TypeError")],
          globals |-> globs]
    ELSE [frame |-> [f EXCEPT !.at = "converted",
                              !.locals = ("dets_th" :> ToTensor(f.dets, f.device_id))],
          globals |-> ("is_numpy" :> ~IsTensor(f.dets)) @@ globs]

\* nms, the conversion: is_numpy and dets_th are bound in the frame, or
\* TypeError is raised.
NmsConvert(f, globs) ==
    IF ~IsTensor(f.dets) /\ ~IsNdarray(f.dets)
    THEN [frame |-> [f EXCEPT !.at = "raised", !.ret = Raised("TypeError")],
          globals |-> globs]
    ELSE [frame |-> [f EXCEPT !.at = "converted",
                              !.locals = ("is_numpy" :> ~IsTensor(f.dets))
                                         @@ ("dets_th" :> ToTensor(f.dets, f.device_id))],
          globals |-> globs]

\* nms, the suppression: inds is bound to new_zeros(0) or to what the backend
\* found at module level returns.
NmsSuppress(f, globs) ==
    LET dets_th == Lookup(f.locals, globs, "dets_th")
        backend == IF IsCuda(dets_th) THEN Lookup(f.locals, globs, "nms_cuda")
                   ELSE Lookup(f.locals, globs, "nms_cpu")
        inds == IF Len(dets_th.rows) = 0 THEN <<>>
                ELSE IF backend \in {"nms_cpu.nms", "nms_cuda.nms"}
                THEN NmsBackend(dets_th.rows, f.iou_thr)
                ELSE <<>>
    IN  [frame |-> [f EXCEPT !.at = "suppressed",
                             !.locals = ("inds" :> inds) @@ f.locals],
         globals |-> globs]

\* nms, the return: dets[inds, :] and inds, as a numpy array when is_numpy;
\* the frame's names go with the frame.
NmsFinish(f, globs) ==
    LET is_numpy == Lookup(f.locals, globs, "is_numpy")
        dets_th == Lookup(f.locals, globs, "dets_th")
        inds == Lookup(f.locals, globs, "inds")
    IN  [frame |-> [f EXCEPT !.at = "returned",
                             !.locals = NoLocals,
                             !.ret = Returned(IndexRows(f.dets, inds),
                                              IndexContainer(is_numpy, dets_th, inds))],
         globals |-> globs]

\* Each thread has called nms on candidates of its own.
ThreadInit ==
    /\ pc = "threads"
    /\ fn = "nms"
    /\ args = NoArgs
    /\ ret = NoRet
    /\ events = <<>>
    /\ remaining = <<>>
    /\ finalized = <<>>
    /\ frames \in [Threads -> { Called(dets, ThreadThr, device_id) :
                                   dets \in ThreadInputs, device_id \in DeviceIds }]
    /\ globals = ModuleGlobals
    /\ self = NoSelf
    /\ results = NoResults

\* A thread runs the conversion of its call; events records which thread ran.
ThreadConvert ==
    /\ pc = "threads"
    /\ \E t \in Threads :
          /\ frames[t].at = "called"
          /\ \E step \in {NmsConvert(frames[t], globals)} :
                /\ frames' = [frames EXCEPT ![t] = step.frame]
                /\ globals' = step.globals
          /\ events' = Append(events, t)
    /\ UNCHANGED <<pc, fn, args, ret, loopvars, flipvars>>

\* A thread runs the suppression of its call.
ThreadSuppress ==
    /\ pc = "threads"
    /\ \E t \in Threads :
          /\ frames[t].at = "converted"
          /\ \E step \in {NmsSuppress(frames[t], globals)} :
                /\ frames' = [frames EXCEPT ![t] = step.frame]
                /\ globals' = step.globals
          /\ events' = Append(events, t)
    /\ UNCHANGED <<pc, fn, args, ret, loopvars, flipvars>>

\* A thread returns from its call.
ThreadFinish ==
    /\ pc = "threads"
    /\ \E t \in Threads :
          /\ frames[t].at = "suppressed"
          /\ \E step \in {NmsFinish(frames[t], globals)} :
                /\ frames' = [frames EXCEPT ![t] = step.frame]
                /\ globals' = step.globals
          /\ events' = Append(events, t)
    /\ UNCHANGED <<pc, fn, args, ret, loopvars, flipvars>>

ThreadNext == ThreadConvert \/ ThreadSuppress \/ ThreadFinish

ThreadSpec == ThreadInit /\ [][ThreadNext]_vars

\* ------------------------------- RandomFlip (datasets/pipelines/transforms.py)

\* Python dicts: key in d, d.get(key, default), d[key] = value.
Has(d, key) == key \in DOMAIN d
Get(d, key, default) == IF Has(d, key) THEN d[key] ELSE default
Put(d, key, value) == (key :> value) @@ d

Reverse(s) == [i \in 1..Len(s) |-> s[Len(s) + 1 - i]]

\* mmcv.imflip(img, direction): the rows of pixels mirrored left to right
\* (np.flip(img, axis=1)) or the image turned upside down (axis=0).
imflip(img, direction) ==
    IF direction = "horizontal"
    THEN [r \in 1..Len(img) |-> Reverse(img[r])]
    ELSE Reverse(img)

\* RandomFlip.__init__(flip_ratio, direction): the instance, or AssertionError.
RandomFlipInit(flip_ratio, direction) ==
    IF flip_ratio # NoRatio /\ ~(flip_ratio >= 0 /\ flip_ratio <= 100)
    THEN [status |-> "AssertionError", self |-> NoSelf]
    ELSE IF direction \notin {"horizontal", "vertical"}
    THEN [status |-> "AssertionError", self |-> NoSelf]
    ELSE [status |-> "ok",
          self |-> [flip_ratio |-> flip_ratio, direction |-> direction]]

\* RandomFlip.bbox_flip(bboxes, img_shape, direction), bboxes of shape (n, 4),
\* img_shape = (height, width).
bbox_flip(bboxes, img_shape, direction) ==
    [k \in 1..Len(bboxes) |->
        LET b == bboxes[k]
            w == img_shape[2]
            h == img_shape[1]
        IN  IF direction = "horizontal"
            THEN <<w - b[3] - 1, b[2], w - b[1] - 1, b[4]>>
            ELSE <<b[1], h - b[4] - 1, b[3], h - b[2] - 1>>]

\* The keypoint names of kpts_flip and its left/right map.
keypoints ==
    << "nose", "left_eye", "right_eye", "left_ear", "right_ear",
       "left_shoulder", "right_shoulder", "left_elbow", "right_elbow",
       "left_wrist", "right_wrist", "left_hip", "right_hip",
       "left_knee", "right_knee", "left_ankle", "right_ankle" >>
keypoint_flip_map ==
    { <<"left_eye", "right_eye">>, <<"left_ear", "right_ear">>,
      <<"left_shoulder", "right_shoulder">>, <<"left_elbow", "right_elbow">>,
      <<"left_wrist", "right_wrist">>, <<"left_hip", "right_hip">>,
      <<"left_knee", "right_knee">>, <<"left_ankle", "right_ankle">> }

\* The keypoint whose coordinates keypoint number i receives in kpts_flip.
FlipPartner(i) ==
    IF \E m \in keypoint_flip_map : m[1] = keypoints[i]
    THEN CHOOSE j \in 1..Len(keypoints) :
            <<keypoints[i], keypoints[j]>> \in keypoint_flip_map
    ELSE IF \E m \in keypoint_flip_map : m[2] = keypoints[i]
    THEN CHOOSE j \in 1..Len(keypoints) :
            <<keypoints[j], keypoints[i]>> \in keypoint_flip_map
    ELSE i

\* RandomFlip.kpts_flip(keypoint_coords, img_shape), keypoint_coords of shape
\* (n, 17, 3): left and right keypoints change places, x becomes
\* width - x - 1, and a keypoint of visibility 0 becomes (0, 0, 0).  The
\* method takes no direction.
kpts_flip(keypoint_coords, img_shape) ==
    [n \in 1..Len(keypoint_coords) |->
        [i \in 1..Len(keypoints) |->
            LET kp == keypoint_coords[n][FlipPartner(i)]
                width == img_shape[2]
            IN  IF kp[3] = 0 THEN <<0, 0, 0>>
                ELSE <<width - kp[1] - 1, kp[2], kp[3]>>]]

\* One polygon [x0, y0, x1, y1, ...] mirrored left to right.
PolyFlipHorizontal(p, w) ==
    [i \in 1..Len(p) |-> IF i % 2 = 1 THEN w - p[i] - 1 ELSE p[i]]

\* RandomFlip.poly_mask_flip(poly_masks, img_shape, direction): for
\* 'vertical' the statement p[1::2] = h - np.p[1::2] - 1 raises
\* AttributeError (numpy has no attribute p) on the first polygon.
poly_mask_flip(poly_masks, img_shape, direction) ==
    IF direction = "horizontal"
    THEN [status |-> "ok",
          value |-> [m \in 1..Len(poly_masks) |->
                       [q \in 1..Len(poly_masks[m]) |->
                          PolyFlipHorizontal(poly_masks[m][q], img_shape[2])]]]
    ELSE IF \E m \in 1..Len(poly_masks) : Len(poly_masks[m]) > 0
    THEN [status |-> "AttributeError", value |-> poly_masks]
    ELSE [status |-> "ok",
          value |-> [m \in 1..Len(poly_masks) |-> <<>>]]

\* for key in results.get('bbox_fields', []): results[key] = bbox_flip(...)
RECURSIVE FlipBboxFields(_, _)
FlipBboxFields(res, keys) ==
    IF keys = <<>> THEN res
    ELSE FlipBboxFields(
            Put(res, Head(keys),
                bbox_flip(res[Head(keys)], res["img_shape"], res["flip_direction"])),
            Tail(keys))

\* for key in results.get('mask_fields', []): bitmaps through imflip when
\* results.get('poly2mask', True), polygons through poly_mask_flip otherwise.
RECURSIVE FlipMaskFields(_, _)
FlipMaskFields(res, keys) ==
    IF keys = <<>> THEN [status |-> "ok", results |-> res]
    ELSE IF Get(res, "poly2mask", TRUE)
    THEN FlipMaskFields(
            Put(res, Head(keys),
                [m \in 1..Len(res[Head(keys)]) |->
                    imflip(res[Head(keys)][m], res["flip_direction"])]),
            Tail(keys))
    ELSE LET f == poly_mask_flip(res[Head(keys)], res["img_shape"],
                                 res["flip_direction"])
         IN  IF f.status # "ok" THEN [status |-> f.status, results |-> res]
             ELSE FlipMaskFields(Put(res, Head(keys), f.value), Tail(keys))

\* for key in results.get('keypoint_fields', []): results[key] = kpts_flip(...)
RECURSIVE FlipKeypointFields(_, _)
FlipKeypointFields(res, keys) ==
    IF keys = <<>> THEN res
    ELSE FlipKeypointFields(
            Put(res, Head(keys), kpts_flip(res[Head(keys)], res["img_shape"])),
            Tail(keys))

\* RandomFlip.__call__(results) on the instance slf, rand being what
\* np.random.rand() returns if it is called (in hundredths): the outcome,
\* the dict as the call leaves it, and whether the random draw was made.
\* np.random.rand() < None raises TypeError.
RandomFlipCall(slf, res, rand) ==
    LET drawn == ~Has(res, "flip")
        log == IF drawn THEN <<"np.random.rand">> ELSE <<>>
    IN  IF drawn /\ slf.flip_ratio = NoRatio
        THEN [status |-> "TypeError", results |-> res, events |-> log]
        ELSE
        LET r1 == IF drawn THEN Put(res, "flip", rand < slf.flip_ratio) ELSE res
            r2 == IF Has(r1, "flip_direction") THEN r1
                  ELSE Put(r1, "flip_direction", slf.direction)
        IN  IF ~r2["flip"]
            THEN [status |-> "ok", results |-> r2, events |-> log]
            ELSE
            LET r3 == Put(r2, "img", imflip(r2["img"], r2["flip_direction"]))
                r4 == FlipBboxFields(r3, Get(r3, "bbox_fields", <<>>))
                m == FlipMaskFields(r4, Get(r4, "mask_fields", <<>>))
            IN  IF m.status # "ok"
                THEN [status |-> m.status, results |-> m.results, events |-> log]
                ELSE [status |-> "ok",
                      results |-> FlipKeypointFields(
                                      m.results,
                                      Get(m.results, "keypoint_fields", <<>>)),
                      events |-> log]

\* The arguments tried for the constructor, ratios in hundredths.
FlipRatios == {NoRatio, 0, 50, 100, 150}
Directions == {"horizontal", "vertical", "diagonal"}

\* What np.random.rand() can return, in hundredths of [0, 1).
Rands == {0, 50, 99}

\* An image of 2 rows and 3 columns, each pixel with a value of its own, and
\* its img_shape (height, width).
Image == << <<1, 2, 3>>, <<4, 5, 6>> >>
ImageShape == <<Len(Image), Len(Image[1])>>

\* Two poses of 17 keypoints inside the image; the second has an invisible
\* keypoint.
PoseA == [i \in 1..Len(keypoints) |-> <<i % 3, i % 2, 2>>]
PoseB == [i \in 1..Len(keypoints) |->
            <<(i + 1) % 3, i % 2, IF i = 4 THEN 0 ELSE 1>>]

\* The results dicts RandomFlip is called on: with or without 'flip' and
\* 'flip_direction', with or without boxes, masks (bitmaps or polygons) and
\* keypoints.
FlipEntries == {EmptyDict, "flip" :> TRUE, "flip" :> FALSE}
DirectionEntries ==
    {EmptyDict, "flip_direction" :> "horizontal", "flip_direction" :> "vertical"}
BboxEntries ==
    { EmptyDict,
      ("bbox_fields" :> <<"gt_bboxes">>)
        @@ ("gt_bboxes" :> << <<0, 0, 1, 1>>, <<1, 0, 2, 0>> >>) }
MaskEntries ==
    { EmptyDict,
      ("mask_fields" :> <<"gt_masks">>)
        @@ ("gt_masks" :> << << <<1, 0, 0>>, <<1, 1, 0>> >> >>),
      ("mask_fields" :> <<"gt_masks">>) @@ ("poly2mask" :> TRUE)
        @@ ("gt_masks" :> << << <<0, 0, 1>>, <<0, 0, 0>> >> >>),
      ("mask_fields" :> <<"gt_masks">>) @@ ("poly2mask" :> FALSE)
        @@ ("gt_masks" :> << << <<0, 0, 2, 0, 2, 1>> >> >>) }
KeypointEntries ==
    { EmptyDict,
      ("keypoint_fields" :> <<"gt_keypoints">>) @@ ("gt_keypoints" :> <<PoseA>>),
      ("keypoint_fields" :> <<"gt_keypoints">>)
        @@ ("gt_keypoints" :> <<PoseA, PoseB>>) }
ResultsInputs ==
    { ("img" :> Image) @@ ("img_shape" :> ImageShape) @@ f @@ d @@ b @@ m @@ k :
        f \in FlipEntries, d \in DirectionEntries, b \in BboxEntries,
        m \in MaskEntries, k \in KeypointEntries }

\* No RandomFlip has been built yet.
FlipInit ==
    /\ pc = "new"
    /\ fn = "RandomFlip"
    /\ args = NoArgs
    /\ ret = NoRet
    /\ events = <<>>
    /\ remaining = <<>>
    /\ finalized = <<>>
    /\ frames = <<>>
    /\ globals = ModuleGlobals
    /\ self = NoSelf
    /\ results = NoResults

\* RandomFlip(flip_ratio, direction)
FlipConstruct ==
    /\ pc = "new"
    /\ \E flip_ratio \in FlipRatios, direction \in Directions :
        \E r \in {RandomFlipInit(flip_ratio, direction)} :
          /\ args' = [flip_ratio |-> flip_ratio, direction |-> direction]
          /\ self' = r.self
          /\ ret' = [status |-> r.status]
          /\ pc' = IF r.status = "ok" THEN "built" ELSE "rejected"
    /\ UNCHANGED <<fn, events, results, loopvars, threadvars>>

\* transform(results) on the instance built
FlipCall ==
    /\ pc = "built"
    /\ \E res \in ResultsInputs, rand \in Rands :
        \E r \in {RandomFlipCall(self, res, rand)} :
          /\ args' = [results |-> res, rand |-> rand]
          /\ results' = r.results
          /\ ret' = [status |-> r.status]
          /\ events' = r.events
    /\ pc' = "called"
    /\ UNCHANGED <<fn, self, loopvars, threadvars>>

FlipNext == FlipConstruct \/ FlipCall

FlipSpec == FlipInit /\ [][FlipNext]_vars

\* ------------------------------------------------------------ properties

\* A call of entry point f has returned normally.
ReturnedFrom(f) == pc = "done" /\ fn = f /\ ret.status = "ok"

EntryPoints == {"nms", "soft_nms", "oks_nms", "oks_nms_vis"}

\* The input rows, the kept rows and the returned 0-based indices.
InRows == args.dets.rows
KeptRows == ret.kept.rows
Inds == ret.inds.rows

\* C1. Hard NMS post-condition: no two distinct candidates of the kept set
\* returned by nms overlap by an IoU strictly greater than iou_thr.
C1_NoKeptPairOverlaps ==
    ReturnedFrom("nms") =>
        \A i, j \in 1..Len(KeptRows) :
            i # j => ~Exceeds(IoU(KeptRows[i].box, KeptRows[j].box), args.iou_thr)

\* nms kept two candidates that overlap (by no more than iou_thr) and
\* suppressed another.
C1_Witness ==
    /\ ReturnedFrom("nms")
    /\ Len(KeptRows) < Len(InRows)
    /\ \E i, j \in 1..Len(KeptRows) :
          i # j /\ IoU(KeptRows[i].box, KeptRows[j].box)[1] > 0

\* C2. Hard NMS returns the kept indices in descending score order, and
\* kept candidates with equal scores in their input order.
C2_DescendingStable ==
    ReturnedFrom("nms") =>
        \A i, j \in 1..Len(Inds) :
            i < j =>
                \/ InRows[Inds[i] + 1].score > InRows[Inds[j] + 1].score
                \/ /\ InRows[Inds[i] + 1].score = InRows[Inds[j] + 1].score
                   /\ Inds[i] < Inds[j]

\* nms kept a later, higher-scored candidate ahead of an earlier one, and two
\* candidates of equal score.
C2_Witness ==
    /\ ReturnedFrom("nms")
    /\ \E i, j \in 1..Len(Inds) : i < j /\ Inds[i] > Inds[j]
    /\ \E i, j \in 1..Len(Inds) :
          i < j /\ InRows[Inds[i] + 1].score = InRows[Inds[j] + 1].score

\* C3. For each entry point and n candidates, the returned indices are at
\* most n, pairwise different, and each within 0 .. n-1.
C3_IndicesUniqueInBounds ==
    \A f \in EntryPoints :
        ReturnedFrom(f) =>
            /\ Len(Inds) <= Len(InRows)
            /\ \A i, j \in 1..Len(Inds) : i # j => Inds[i] # Inds[j]
            /\ \A i \in 1..Len(Inds) : 0 <= Inds[i] /\ Inds[i] < Len(InRows)

\* A call kept the last candidate of three and dropped another.
C3_Witness ==
    /\ \E f \in EntryPoints : ReturnedFrom(f)
    /\ Len(InRows) = 3
    /\ Len(Inds) = 2
    /\ \E i \in 1..Len(Inds) : Inds[i] = 2

\* C4. The kept set is as long as the index sequence; for nms, oks_nms and
\* oks_nms_vis its k-th row is the input row at the k-th index, for soft_nms
\* its k-th row has the box of the input row at the k-th index.
C4_KeptIsInputAtIndices ==
    \A f \in EntryPoints :
        ReturnedFrom(f) =>
            /\ Len(KeptRows) = Len(Inds)
            /\ \A k \in 1..Len(Inds) :
                  IF f = "soft_nms"
                  THEN KeptRows[k].box = InRows[Inds[k] + 1].box
                  ELSE KeptRows[k] = InRows[Inds[k] + 1]

\* A call returned rows in another order than the input's, one of them not
\* the row at the same position of the input.
C4_Witness ==
    /\ \E f \in EntryPoints : ReturnedFrom(f)
    /\ Len(Inds) >= 2
    /\ \E k \in 1..Len(Inds) : Inds[k] # k - 1 /\ KeptRows[k] # InRows[k]

\* C5. Hard NMS is idempotent: nms with the same iou_thr on the kept set of
\* a first call keeps every candidate of it, in the same order.
C5_Idempotent ==
    ReturnedFrom("nms") =>
        LET again == NmsCall(ret.kept, args.iou_thr, args.device_id)[1]
        IN  /\ again.status = "ok"
            /\ again.kept = ret.kept
            /\ again.inds.rows = [k \in 1..Len(KeptRows) |-> k - 1]

\* The first call suppressed a candidate and kept at least two, which the
\* second call has to compare.
C5_Witness ==
    /\ ReturnedFrom("nms")
    /\ Len(KeptRows) >= 2
    /\ Len(KeptRows) < Len(InRows)
    /\ NmsCall(ret.kept, args.iou_thr, args.device_id)[2] # <<"isinstance">>

\* The suppression backends, and those that run on the GPU.
Backends ==
    {"nms_cpu.nms", "nms_cuda.nms", "soft_nms_cpu", "oks_nms_cpu.oks_nms",
     "oks_nms_py.oks_nms", "oks_nms_cuda.oks_nms", "oks_nms_vis_cuda.oks_nms"}
GpuBackends == {"nms_cuda.nms", "oks_nms_cuda.oks_nms", "oks_nms_vis_cuda.oks_nms"}

\* The backends the call has invoked.
Invoked == {events[k] : k \in 1..Len(events)} \cap Backends

\* The call has ended, by a return or by an exception.
Ended(f) == pc = "done" /\ fn = f

\* The candidate set is an array or a tensor.
Supported == IsTensor(args.dets) \/ IsNdarray(args.dets)

\* C6. Every entry point returns its kept candidates in the representation
\* family of the input (array in, array out; tensor in, tensor out) and with
\* the element datatype of the input.
C6_SameFamilySameDType ==
    \A f \in EntryPoints :
        ReturnedFrom(f) =>
            /\ ret.kept.kind = args.dets.kind
            /\ ret.kept.dtype = args.dets.dtype

\* C7. For every entry point, a call on zero candidates (in an array or a
\* tensor, and for soft_nms with a known method) returns an empty kept set
\* and an empty index set, raises nothing and invokes no backend.
C7_EmptyInputNoBackend ==
    \A f \in EntryPoints :
        ( /\ Ended(f)
          /\ Supported
          /\ Len(InRows) = 0
          /\ (f = "soft_nms" => args.method \in {Linear, Gaussian}) )
        => /\ ret.status = "ok"
           /\ KeptRows = <<>>
           /\ Inds = <<>>
           /\ Invoked = {}

\* C8. For every entry point, a candidate set that is neither an array nor a
\* tensor is rejected with TypeError, and the type check is the only thing
\* the call did: no backend invoked, no other argument processed first.
C8_TypeErrorBeforeAnythingElse ==
    \A f \in EntryPoints :
        (Ended(f) /\ ~Supported) =>
            /\ ret.status = "TypeError"
            /\ events = <<"isinstance">>

\* C9 as stated. soft_nms with a method other than 'linear' or 'gaussian' is
\* rejected with ValueError and invokes no backend.
C9_UnknownMethodValueError ==
    (Ended("soft_nms") /\ args.method \notin {Linear, Gaussian}) =>
        /\ ret.status = "ValueError"
        /\ Invoked = {}

\* C9 amended. soft_nms with a method other than 'linear' or 'gaussian' is
\* rejected and invokes no backend: with ValueError when the candidate set
\* is an array or a tensor, with the TypeError of the type check, which
\* comes first, when it is not.
C9_UnknownMethodRejected ==
    (Ended("soft_nms") /\ args.method \notin {Linear, Gaussian}) =>
        /\ ret.status = IF Supported THEN "ValueError" ELSE "TypeError"
        /\ Invoked = {}

\* soft_nms got candidates in an array or a tensor and an unknown method.
C9_Witness ==
    /\ Ended("soft_nms")
    /\ args.method \notin {Linear, Gaussian}
    /\ Supported
    /\ Len(InRows) >= 2
    /\ ret.status = "ValueError"

\* C10. nms, oks_nms and oks_nms_vis on at least one candidate run the GPU
\* backend if the input is a GPU tensor or a device_id is given, and the
\* CPU backend otherwise.
C10_GpuIffCudaInputOrDeviceId ==
    \A f \in {"nms", "oks_nms", "oks_nms_vis"} :
        (ReturnedFrom(f) /\ Len(InRows) > 0) =>
            IF (IsTensor(args.dets) /\ IsCuda(args.dets)) \/ args.device_id # None
            THEN Invoked # {} /\ Invoked \subseteq GpuBackends
            ELSE Invoked # {} /\ Invoked \cap GpuBackends = {}

\* C11. The two visibility policies are kept apart on every backend: what
\* oks_nms_vis returns is what the greedy loop keeps under the asymmetric
\* vis_thr gate, on the CPU as on the GPU, and what oks_nms returns is what
\* it keeps under the symmetric both-visible rule.
C11_VisGateOnEveryBackend ==
    /\ (ReturnedFrom("oks_nms_vis") /\ Len(InRows) > 0) =>
          Inds = OksVisBackend(InRows, args.iou_thr, args.vis_thr,
                               ScaleSigmas(args.sigmas))
    /\ (ReturnedFrom("oks_nms") /\ Len(InRows) > 0) =>
          Inds = OksBackend(InRows, args.iou_thr, ScaleSigmas(args.sigmas))

\* --------------------------------------- properties of the soft-NMS loop

\* The input row a loop candidate came from.
InputOf(c) == args.dets.rows[c.idx + 1]

\* The loop is about to finalize a candidate.
Stepping == pc = "loop" /\ remaining # <<>>

\* The candidate finalized by the step being taken.
JustSelected == finalized'[Len(finalized')]

\* s2 is s * (u - i) / u, rounded down to the thousandth.
IsLinearDecay(s, s2, iou) ==
    /\ s2 * iou[2] <= s * (iou[2] - iou[1])
    /\ s * (iou[2] - iou[1]) < (s2 + 1) * iou[2]

\* s2 is s * exp(-iou^2 / sigma), rounded down to the thousandth.
IsGaussianDecay(s, s2, iou, sigma) ==
    s2 = (s * ExpNeg(iou[1] * iou[1] * sigma[2], iou[2] * iou[2] * sigma[1]))
            \div 1000

\* C12. In every step of the soft-NMS loop, a candidate that stays in the
\* loop has the score the method prescribes from its overlap with the
\* candidate just selected: with 'linear', score * (1 - iou) when the overlap
\* exceeds iou_thr and the unchanged score otherwise; with 'gaussian',
\* score * exp(-iou^2 / sigma) whatever iou_thr is.
C12_DecayRule ==
    [][Stepping =>
        \A k \in 1..Len(remaining), m \in 1..Len(remaining') :
            remaining'[m].idx = remaining[k].idx =>
                LET s == remaining[k].score
                    s2 == remaining'[m].score
                    iou == IoU(JustSelected.box, remaining[k].box)
                IN  /\ remaining[k].idx # JustSelected.idx
                    /\ args.method = Linear /\ Exceeds(iou, args.iou_thr) =>
                          IsLinearDecay(s, s2, iou)
                    /\ args.method = Linear /\ ~Exceeds(iou, args.iou_thr) =>
                          s2 = s
                    /\ args.method = Gaussian =>
                          IsGaussianDecay(s, s2, iou, args.sigma)]_vars

\* A linear step has lowered the score of a candidate still in the loop, and
\* left another one as it was.
C12_Witness ==
    /\ pc = "loop"
    /\ args.method = Linear
    /\ Len(finalized) = 1
    /\ \E k, m \in 1..Len(remaining) :
          /\ 0 < remaining[k].score
          /\ remaining[k].score < InputOf(remaining[k]).score
          /\ remaining[m].score = InputOf(remaining[m]).score

\* The input positions of the candidates in a sequence of loop candidates.
IdxOf(cands) == { cands[k].idx : k \in 1..Len(cands) }

\* The input positions the loop has discarded: neither remaining nor finalized.
Discarded ==
    (0..(Len(args.dets.rows) - 1)) \ (IdxOf(remaining) \cup IdxOf(finalized))

\* Once discarded, a candidate is in no later state of the loop and not in
\* the output.
C13_DiscardPermanent ==
    [][pc = "loop" =>
        /\ Discarded \subseteq Discarded'
        /\ pc' = "done" =>
              \A k \in 1..Len(ret'.inds.rows) : ret'.inds.rows[k] \notin Discarded]_vars

\* C13. A candidate is discarded as soon as its score falls below min_score:
\* after a step no candidate below min_score remains in the loop, and every
\* candidate finalized, and every candidate returned, has a score of at least
\* min_score.
C13_OutputAtLeastMinScore ==
    /\ (pc = "loop" /\ finalized # <<>>) =>
          \A k \in 1..Len(remaining) : remaining[k].score >= args.min_score
    /\ pc \in {"loop", "done"} =>
          \A k \in 1..Len(finalized) : finalized[k].score >= args.min_score
    /\ (pc = "done" /\ fn = "soft_nms") =>
          \A k \in 1..Len(KeptRows) : KeptRows[k].score >= args.min_score

\* C14. soft_nms returns the candidates in the order the loop finalized them:
\* each step finalizes a remaining candidate of highest current score, and on
\* return the k-th row is the candidate finalized by the k-th step, with the
\* box it had in the input and the decayed score it had when selected, and
\* the k-th index is its position in the input.
C14_OutputInSelectionOrder ==
    [][pc = "loop" =>
        /\ Stepping =>
              /\ Len(finalized') = Len(finalized) + 1
              /\ SubSeq(finalized', 1, Len(finalized)) = finalized
              /\ \E k \in 1..Len(remaining) : remaining[k] = JustSelected
              /\ \A k \in 1..Len(remaining) :
                    remaining[k].score <= JustSelected.score
        /\ pc' = "done" =>
              /\ Len(ret'.kept.rows) = Len(finalized)
              /\ Len(ret'.inds.rows) = Len(finalized)
              /\ \A k \in 1..Len(finalized) :
                    /\ ret'.inds.rows[k] = finalized[k].idx
                    /\ ret'.kept.rows[k].score = finalized[k].score
                    /\ ret'.kept.rows[k].box = finalized[k].box
                    /\ ret'.kept.rows[k].box = InputOf(finalized[k]).box]_vars

\* soft_nms has returned two candidates out of input order, the second one
\* with a score lowered by the loop.
C14_Witness ==
    /\ ReturnedFrom("soft_nms")
    /\ Len(finalized) >= 2
    /\ Inds[1] > Inds[2]
    /\ 0 < KeptRows[2].score
    /\ KeptRows[2].score < InRows[Inds[2] + 1].score

\* What nms returns for the candidates and the threshold of the call in hand.
HardOutcome == NmsCall(args.dets, args.iou_thr, None)[1]

\* C15. Suppression never increases a score: in every state of the soft-NMS
\* loop each candidate, remaining or finalized, has a score no higher than
\* the one it had in the input, and every score returned by soft_nms or by
\* nms is no higher than the input score of the candidate at the index
\* returned with it.
C15_ScoreNeverIncreases ==
    /\ pc \in {"loop", "done"} =>
          /\ \A k \in 1..Len(remaining) :
                remaining[k].score <= InputOf(remaining[k]).score
          /\ \A k \in 1..Len(finalized) :
                finalized[k].score <= InputOf(finalized[k]).score
    /\ ReturnedFrom("soft_nms") =>
          /\ \A k \in 1..Len(KeptRows) :
                KeptRows[k].score <= InRows[Inds[k] + 1].score
          /\ \A k \in 1..Len(HardOutcome.kept.rows) :
                HardOutcome.kept.rows[k].score
                    <= InRows[HardOutcome.inds.rows[k] + 1].score

\* soft_nms with the gaussian method has returned a candidate with a score
\* strictly below its input score, and nms keeps two of the same candidates.
C15_Witness ==
    /\ ReturnedFrom("soft_nms")
    /\ args.method = Gaussian
    /\ \E k \in 1..Len(KeptRows) : KeptRows[k].score < InRows[Inds[k] + 1].score
    /\ Len(HardOutcome.kept.rows) >= 2

\* soft_nms has returned from a call with the linear method and iou_thr = 1:
\* no overlap exceeds the threshold, so no score decays.
DecayDisabled ==
    /\ ReturnedFrom("soft_nms")
    /\ args.method = Linear
    /\ args.iou_thr = <<1, 1>>

\* C17 as stated. soft_nms with iou_thr = 1.0 and no decay is the identity:
\* every input candidate is kept and every kept candidate has its original
\* score.
C17_Identity ==
    DecayDisabled =>
        /\ \A i \in 1..Len(InRows) : \E k \in 1..Len(Inds) : Inds[k] = i - 1
        /\ \A k \in 1..Len(KeptRows) : KeptRows[k] = InRows[Inds[k] + 1]

\* C17, amended. soft_nms with iou_thr = 1.0 and no decay keeps every input
\* candidate whose score is at least min_score, each once, and every
\* candidate it keeps has its original box and score.
C17_IdentityAboveMinScore ==
    DecayDisabled =>
        /\ \A i \in 1..Len(InRows) :
              InRows[i].score >= args.min_score =>
                  Cardinality({k \in 1..Len(Inds) : Inds[k] = i - 1}) = 1
        /\ Len(KeptRows) = Len(Inds)
        /\ \A k \in 1..Len(KeptRows) : KeptRows[k] = InRows[Inds[k] + 1]

\* Three candidates, two of them on the same box, all above min_score, have
\* all been kept.
C17_Witness ==
    /\ DecayDisabled
    /\ Len(InRows) = 3
    /\ InRows[1].box = InRows[2].box
    /\ \A i \in 1..3 : InRows[i].score >= args.min_score
    /\ Len(KeptRows) = 3

\* ------------------------------------------- the documented example

\* The entry point f has returned from a call on the seven candidates of the
\* docstring with iou_thr = 0.7.
OnExample(f) ==
    /\ ReturnedFrom(f)
    /\ args.dets = ExampleDets
    /\ args.iou_thr = ExampleThr

\* C18. nms on the documented seven candidates with iou_thr = 0.7 keeps
\* exactly 3 candidates, with the IoU of the specification (intersection
\* area over union area).
C18_ExampleKeepsThree ==
    OnExample("nms") => Len(KeptRows) = 3 /\ Len(Inds) = 3

\* C19. soft_nms on the documented seven candidates with iou_thr = 0.7,
\* method 'linear', sigma = 0.5 and the default min_score returns exactly 3
\* candidates.
C19_ExampleSoftKeepsThree ==
    (OnExample("soft_nms") /\ args.method = Linear) =>
        Len(KeptRows) = 3 /\ Len(Inds) = 3

\* C19, amended. soft_nms on the documented seven candidates with
\* iou_thr = 0.7, method 'linear', sigma = 0.5 and the default min_score
\* returns all seven candidates, each once: no score is higher than in the
\* input, and the last candidate, which overlaps the selected candidate 3 by
\* more than iou_thr, has a score strictly lower than its input score.
C19_ExampleSoftKeepsAll ==
    (OnExample("soft_nms") /\ args.method = Linear) =>
        /\ Len(KeptRows) = 7
        /\ { Inds[k] : k \in 1..Len(Inds) } = 0..6
        /\ \A k \in 1..7 :
              /\ KeptRows[k].box = InRows[Inds[k] + 1].box
              /\ KeptRows[k].score <= InRows[Inds[k] + 1].score
              /\ KeptRows[k].score >= args.min_score
              /\ Inds[k] = 6 => KeptRows[k].score < InRows[7].score

\* soft_nms has returned from the linear call on the example, the last
\* candidate with a score lowered from 0.3 to 0.056.
C19_Witness ==
    /\ OnExample("soft_nms")
    /\ args.method = Linear
    /\ args.sigma = DefaultSigma
    /\ args.min_score = DefaultMinScore
    /\ \E k \in 1..Len(Inds) : Inds[k] = 6 /\ KeptRows[k].score = 56

\* ------------------------------------------------------ concurrent calls

\* The call of thread t is over.
Over(t) == frames[t].at \in {"returned", "raised"}

C22_ShapeMismatchRejected ==
    \A f \in {"oks_nms", "oks_nms_vis"} :
        (Ended(f) /\ Supported /\ KeypointCount(args.dets) # Len(args.sigmas)) =>
            ret.status = "ShapeMismatch"

\* ------------------------------------------------------------ RandomFlip

\* RandomFlip.__call__ has ended, by a return or by an exception.
FlipEnded == pc = "called"

\* The flag the call has left in the dict is true.
Flipped == FlipEnded /\ Has(results, "flip") /\ results["flip"]

\* C23. RandomFlip.__call__ on every instance the constructor accepts, the
\* one with flip_ratio = None included: a 'flip' key of the input is left as
\* it is and no random draw is made; without it the call returns with the
\* flag stored under 'flip', drawn against flip_ratio; and when the flag is
\* false every other entry of the dict (image, boxes, masks, keypoints) is as
\* it was.
C23_FlagUsedOrDrawn ==
    FlipEnded =>
        /\ Has(args.results, "flip") =>
              /\ results["flip"] = args.results["flip"]
              /\ events = <<>>
        /\ ~Has(args.results, "flip") =>
              /\ Has(results, "flip")
              /\ events = <<"np.random.rand">>
              /\ self.flip_ratio # NoRatio =>
                    results["flip"] = (args.rand < self.flip_ratio)
        /\ (Has(results, "flip") /\ ~results["flip"]) =>
              \A key \in DOMAIN args.results : results[key] = args.results[key]

\* A point (x, y) mirrored along the direction in an image of the shape
\* (height, width).
Mirror(x, y, direction, img_shape) ==
    IF direction = "horizontal" THEN <<img_shape[2] - x - 1, y>>
    ELSE <<x, img_shape[1] - y - 1>>

\* The visible points <<x, y>> of a keypoint array.
VisiblePoints(coords) ==
    { <<coords[p[1]][p[2]][1], coords[p[1]][p[2]][2]>> :
        p \in { q \in (1..Len(coords)) \X (1..Len(keypoints)) :
                  coords[q[1]][q[2]][3] > 0 } }

\* C26. When RandomFlip has applied a flip, the call has completed without
\* error and every annotation is mirrored along the direction of the image,
\* results['flip_direction'], 'vertical' as well as 'horizontal': the pixels
\* of the image, the corners of the boxes, the visible keypoints and the
\* vertices of the polygon masks (poly2mask false).
C26_AllFlippedAlongImage ==
    Flipped =>
        LET dir == results["flip_direction"]
            shape == results["img_shape"]
            before == args.results
        IN  /\ ret.status = "ok"
            /\ \A r \in 1..shape[1], c \in 1..shape[2] :
                  LET to == Mirror(c - 1, r - 1, dir, shape)
                  IN  results["img"][to[2] + 1][to[1] + 1] = before["img"][r][c]
            /\ \A key \in { Get(before, "bbox_fields", <<>>)[i] :
                              i \in 1..Len(Get(before, "bbox_fields", <<>>)) } :
                  \A k \in 1..Len(before[key]) :
                      { <<results[key][k][1], results[key][k][2]>>,
                        <<results[key][k][3], results[key][k][4]>> }
                      \subseteq
                      { Mirror(x, y, dir, shape) :
                          x \in {before[key][k][1], before[key][k][3]},
                          y \in {before[key][k][2], before[key][k][4]} }
            /\ \A key \in { Get(before, "keypoint_fields", <<>>)[i] :
                              i \in 1..Len(Get(before, "keypoint_fields", <<>>)) } :
                  VisiblePoints(results[key])
                      = { Mirror(p[1], p[2], dir, shape) :
                            p \in VisiblePoints(before[key]) }
            /\ ~Get(before, "poly2mask", TRUE) =>
                  \A key \in { Get(before, "mask_fields", <<>>)[i] :
                                 i \in 1..Len(Get(before, "mask_fields", <<>>)) } :
                      \A m \in 1..Len(before[key]) :
                        \A q \in 1..Len(before[key][m]) :
                          \A v \in 1..(Len(before[key][m][q]) \div 2) :
                              <<results[key][m][q][2 * v - 1],
                                results[key][m][q][2 * v]>>
                              = Mirror(before[key][m][q][2 * v - 1],
                                       before[key][m][q][2 * v], dir, shape)

\* ------------------------------------------- what hard NMS suppresses

\* Candidate i comes before candidate j in the stable descending-score order
\* of the input (0-based positions).
Precedes(i, j) ==
    \/ InRows[i + 1].score > InRows[j + 1].score
    \/ InRows[i + 1].score = InRows[j + 1].score /\ i < j

\* The 0-based positions nms has returned.
KeptSet == { Inds[k] : k \in 1..Len(Inds) }

InLoop == pc \in {"hard", "loop"}

\* The elements of a sequence.
Elements(seq) == { seq[k] : k \in 1..Len(seq) }

\* C25. The greedy loop terminates, for nms and for soft_nms: each step
\* finalizes exactly one remaining candidate and takes it out of the
\* remaining set, which gets smaller; with nothing remaining the only step
\* is the return; so the return comes after at most n steps for n
\* candidates, with the remaining set empty.
C25_LoopTerminates ==
    [][InLoop =>
        /\ remaining # <<>> =>
              /\ pc' = pc
              /\ Len(finalized') = Len(finalized) + 1
              /\ SubSeq(finalized', 1, Len(finalized)) = finalized
              /\ finalized'[Len(finalized')] \in Elements(remaining)
              /\ finalized'[Len(finalized')] \notin Elements(remaining')
              /\ Len(remaining') < Len(remaining)
        /\ remaining = <<>> => pc' = "done"
        /\ Len(finalized') + Len(remaining') <= Len(InRows)
        /\ pc' = "done" =>
              /\ remaining' = <<>>
              /\ Len(finalized') <= Len(InRows)]_vars

\* nms has returned after two steps on three candidates, one of which the
\* first step suppressed, and the indices it returns are those the steps
\* finalized.
C25_Witness ==
    /\ ReturnedFrom("nms")
    /\ Len(InRows) = 3
    /\ Len(finalized) = 2
    /\ remaining = <<>>
    /\ Inds = finalized

====
